---- MODULE Spec2Model ----
(***************************************************************************)
(* A model of reden's prompt value object                                  *)
(* (packages/reden.ai/src/prompt/prompt.ts).                               *)
(*                                                                         *)
(* JavaScript arrays and objects are reference values, so the model keeps  *)
(* two heaps: `pairs` holds every delimiter array ([open, close]) and      *)
(* `objs` holds every params object.  A heap address is an index into the  *)
(* sequence; allocation appends.  A Prompt holds addresses, both in its    *)
(* read-only properties (_params, _delimiters, ...) and in the closure     *)
(* bindings (params, _delimiters) that its methods read and rebind.        *)
(***************************************************************************)
EXTENDS Integers, Sequences, FiniteSets, TLC

VARIABLES
    pairs,            \* heap of delimiter arrays: address -> <<open, close>>
    objs,             \* heap of params objects: address -> [key -> value]
    activeDelimiters, \* module variable: address of the process-wide default
    prompts,          \* the Prompts constructed so far, in construction order
    last,             \* the most recent call: its name and whether it threw
    calls,            \* the number of calls made so far
    hist,             \* per Prompt: the calls made on it (history)
    defaultSet,       \* arguments of the latest overrideGlobalDelimiters (history)
    randomUUID,       \* utils/uuid: whether crypto.randomUUID is defined
    IDX,              \* utils/uuid: module variable IDX
    BUFFER,           \* utils/uuid: module variable BUFFER (no key: undefined)
    uuidLast          \* utils/uuid: the latest uuid() call (history)

promptVars ==
    <<pairs, objs, activeDelimiters, prompts, last, calls, hist, defaultSet>>
uuidVars == <<randomUUID, IDX, BUFFER, uuidLast>>
vars == <<promptVars, uuidVars>>

(***************************************************************************)
(* Bounds of the model.                                                    *)
(***************************************************************************)
MaxPrompts == 2
MaxCalls == 3

(***************************************************************************)
(* Values.                                                                 *)
(***************************************************************************)
Undefined == [type |-> "undefined"]
Num(n) == [type |-> "number", v |-> n]
Ref(a) == [type |-> "ref", addr |-> a]
EmptyObj == [k \in {} |-> Undefined]
NoCall == <<>>

\* const DEFAULT_DELIMITERS = ['[[', ']]']
DEFAULT_DELIMITERS == <<"[[", "]]">>

\* The delimiter pairs callers pass in: two valid pairs other than the
\* default, a pair with an empty open tag and a pair with an empty close tag.
DelimiterInputs == {<<"<%", "%>">>, <<"{{", "}}">>, <<"", "%>">>, <<"<%", "">>}

\* The params objects callers write as literals.
ParamInputs ==
    { EmptyObj, [a |-> Undefined], [a |-> Num(1), b |-> Num(2)] }

\* The template text callers pass in.  No operation reads inside it.
Templates == {"Hi [[a]]"}

\* uuid() returns an identifier the caller does not choose.
Ids == {"id-1", "id-2"}

P == 1..Len(prompts)

\* The arrays and objects a caller can reach through the Prompts it holds.
CallerPairs ==
    {prompts[i]._delimiters : i \in P}
CallerObjs ==
    {prompts[i]._params : i \in P} \cup {prompts[i].params : i \in P}

\* An argument is a fresh literal or a reference the caller already holds.
ParamLiterals == [kind : {"new"}, val : ParamInputs]
ParamArgs == ParamLiterals \cup [kind : {"ref"}, addr : CallerObjs]
ConfigLiterals ==
    {[kind |-> "empty"], [kind |-> "undefined"]}
        \cup [kind : {"new"}, val : DelimiterInputs]
ConfigArgs == ConfigLiterals \cup [kind : {"ref"}, addr : CallerPairs]

(***************************************************************************)
(* utils/uuid: the identifier generator.                                   *)
(***************************************************************************)
HexDigit(d) == SubSeq("0123456789abcdef", d + 1, d + 1)

\* n.toString(16), n >= 0
RECURSIVE ToString16(_)
ToString16(n) ==
    IF n < 16 THEN HexDigit(n)
    ELSE ToString16(n \div 16) \o HexDigit(n % 16)

\* s.substring(1)
Substring1(str) == SubSeq(str, 2, Len(str))

\* let IDX = 256; while (IDX--) HEX[IDX] = (IDX + 256).toString(16).substring(1)
\* The body runs for IDX = 255 down to 0.
HEX == [k \in 0..255 |-> Substring1(ToString16(k + 256))]

\* HEX[num]; an index HEX does not have gives undefined, which += writes as
\* the text "undefined"
HexOf(num) == IF num \in DOMAIN HEX THEN HEX[num] ELSE "undefined"

\* BUFFER[k]; -1 stands for the undefined that a missing index gives
ReadBuffer(buffer, k) == IF k \in DOMAIN buffer THEN buffer[k] ELSE -1

\* Mutant of VersionByte: the low four bits are not masked (num | 64).
VersionByteNoMask(num) ==
    IF num < 0 THEN 64
    ELSE IF (num \div 64) % 2 = 1 THEN num ELSE num + 64

\* (num & 15) | 64; undefined & 15 is 0
VersionByte(num) == IF num < 0 THEN 64 ELSE (num % 16) + 64

\* (num & 63) | 128; undefined & 63 is 0
VariantByte(num) == IF num < 0 THEN 128 ELSE (num % 64) + 128

\* Mutant of NeedsBuffer: the buffer is kept for one call too many.
NeedsBufferLate(buffer, idx) == DOMAIN buffer = {} \/ idx + 15 > 256

\* !BUFFER || IDX + 16 > 256
NeedsBuffer(buffer, idx) == DOMAIN buffer = {} \/ idx + 16 > 256

\* for (; i < 16; i++) { ... }: the text built and the indices read
RECURSIVE UuidLoop(_, _, _, _, _)
UuidLoop(buffer, idx, i, out, reads) ==
    IF i < 16
    THEN LET num == ReadBuffer(buffer, idx + i)
             piece == IF i = 6 THEN HexOf(VersionByte(num))
                      ELSE IF i = 8 THEN HexOf(VariantByte(num))
                      ELSE HexOf(num)
             sep == IF i % 2 = 1 /\ i > 1 /\ i < 11 THEN "-" ELSE ""
         IN  UuidLoop(buffer, idx, i + 1, out \o piece \o sep,
                      reads \cup {idx + i})
    ELSE [out |-> out, reads |-> reads]

\* The buffers Math.random fills: BUFFER[i] = (256 * Math.random()) | 0 for
\* i in 0..255.  Two ramps, which together put every byte at every place of
\* the read window, and the buffer of 255s.
BufferInputs ==
    { [k \in 0..255 |-> (k + c) % 256] : c \in {0, 128} }
        \cup { [k \in 0..255 |-> 255] }

\* What crypto.randomUUID() returns.
NativeUUIDs == {"123e4567-e89b-42d3-a456-426614174000"}

NoBuffer == [k \in {} |-> 0]

UuidInit ==
    /\ IDX = -1           \* while (IDX--) leaves the loop on 0 and decrements it
    /\ BUFFER = NoBuffer
    /\ uuidLast = [called |-> FALSE, native |-> FALSE, out |-> "",
                   reads |-> {}, base |-> 0, regenerated |-> FALSE,
                   idxBefore |-> 0, hadBuffer |-> FALSE]

\* uuid() when crypto.randomUUID is defined
uuidNative(id) ==
    /\ randomUUID
    /\ uuidLast' = [called |-> TRUE, native |-> TRUE, out |-> id,
                    reads |-> {}, base |-> 0, regenerated |-> FALSE,
                    idxBefore |-> IDX, hadBuffer |-> DOMAIN BUFFER # {}]
    /\ UNCHANGED <<randomUUID, IDX, BUFFER, promptVars>>

\* uuid() on the Math.random path; random is the buffer Math.random fills
\* if this call fills one
uuid(random) ==
    /\ ~randomUUID
    /\ LET fill == NeedsBuffer(BUFFER, IDX)
           buffer == IF fill THEN random ELSE BUFFER
           idx == IF fill THEN 0 ELSE IDX
           loop == UuidLoop(buffer, idx, 0, "", {})
       IN  /\ BUFFER' = buffer
           /\ IDX' = idx + 1
           /\ uuidLast' = [called |-> TRUE, native |-> FALSE, out |-> loop.out,
                           reads |-> loop.reads, base |-> idx,
                           regenerated |-> fill, idxBefore |-> IDX,
                           hadBuffer |-> DOMAIN BUFFER # {}]
    /\ UNCHANGED <<randomUUID, promptVars>>

Init ==
    /\ randomUUID = FALSE
    /\ UuidInit
    /\ pairs = <<DEFAULT_DELIMITERS>>
    /\ objs = <<>>
    /\ activeDelimiters = 1
    /\ prompts = <<>>
    /\ last = [op |-> "init", target |-> 0, threw |-> FALSE,
               given |-> NoCall, dflt |-> NoCall]
    /\ calls = 0
    /\ hist = <<>>
    /\ defaultSet = DEFAULT_DELIMITERS

\* Bookkeeping of a call.  The run makes at most MaxCalls calls (CanCall).
CanCall == calls < MaxCalls

Called(name, target, threw) ==
    /\ UNCHANGED uuidVars
    /\ calls' = calls + 1
    /\ last' = [op |-> name, target |-> target, threw |-> threw,
                given |-> NoCall, dflt |-> NoCall]

\* Bookkeeping of a prompt() call: also the config.delimiters it was given
\* (NoCall when none) and the process-wide default at the call.
Constructed(target, threw, given) ==
    /\ UNCHANGED uuidVars
    /\ calls' = calls + 1
    /\ last' = [op |-> "prompt", target |-> target, threw |-> threw,
                given |-> given, dflt |-> defaultSet]

HasEmptyTag(pair) == \E i \in 1..Len(pair) : Len(pair[i]) = 0

\* Object.keys(o).length
KeyCount(o) == Cardinality(DOMAIN o)

\* Mutant of Spread: the current value wins on a shared key.
SpreadFirstWins(a, b) ==
    [k \in (DOMAIN a) \cup (DOMAIN b) |-> IF k \in DOMAIN a THEN a[k] ELSE b[k]]

\* { ...a, ...b }
Spread(a, b) ==
    [k \in (DOMAIN a) \cup (DOMAIN b) |-> IF k \in DOMAIN b THEN b[k] ELSE a[k]]

\* Mutant of ResolveDelimiters: the process-wide default always wins.
ResolveDelimitersDefaultOnly(config) == activeDelimiters

\* config.delimiters ?? activeDelimiters
ResolveDelimiters(config) ==
    IF "delimiters" \in DOMAIN config /\ config.delimiters # Undefined
    THEN config.delimiters.addr
    ELSE activeDelimiters

\* Mutant of InvalidDelimiters: only the open tag is looked at.
InvalidDelimitersOpenOnly(heap, addr) == Len(heap[addr][1]) = 0

\* for (const tag of _delimiters) if (!tag.length) throw
InvalidDelimiters(heap, addr) ==
    \E i \in 1..Len(heap[addr]) : Len(heap[addr][i]) = 0

(***************************************************************************)
(* prompt(template, params = {}, config = {})                              *)
(***************************************************************************)
prompt(template, pa, ca) ==
    /\ CanCall
    /\ Len(prompts) < MaxPrompts
    /\ LET heap == IF ca.kind = "new" THEN Append(pairs, ca.val) ELSE pairs
           config == CASE ca.kind = "empty" -> EmptyObj
                       [] ca.kind = "undefined" -> [delimiters |-> Undefined]
                       [] ca.kind = "new" -> [delimiters |-> Ref(Len(heap))]
                       [] ca.kind = "ref" -> [delimiters |-> Ref(ca.addr)]
           params == IF pa.kind = "new" THEN Len(objs) + 1 ELSE pa.addr
           delims == ResolveDelimiters(config)
           given == CASE ca.kind = "new" -> ca.val
                      [] ca.kind = "ref" -> pairs[ca.addr]
                      [] OTHER -> NoCall
       IN  IF InvalidDelimiters(heap, delims)
           THEN /\ Constructed(0, TRUE, given)
                /\ UNCHANGED <<pairs, objs, activeDelimiters, prompts, hist,
                               defaultSet>>
           ELSE \E id \in Ids :
                /\ pairs' = heap
                /\ objs' = IF pa.kind = "new" THEN Append(objs, pa.val) ELSE objs
                /\ prompts' = Append(prompts,
                       [ id          |-> id,
                         _template   |-> template,
                         _params     |-> params,
                         _config     |-> config,
                         _delimiters |-> delims,
                         template    |-> template,
                         params      |-> params,
                         config      |-> config,
                         delimiters  |-> delims ])
                /\ hist' = Append(hist,
                       [ consId       |-> id,
                         consTemplate |-> template,
                         consDefault  |-> defaultSet,
                         consConfig   |-> given,
                         consCfg      |-> config,
                         setArgs      |-> NoCall,
                         delBefore    |-> NoCall,
                         parCalled    |-> FALSE,
                         parNext      |-> EmptyObj,
                         parOverride  |-> FALSE,
                         parBefore    |-> EmptyObj ])
                /\ Constructed(Len(prompts) + 1, FALSE, given)
                /\ UNCHANGED <<activeDelimiters, defaultSet>>

(***************************************************************************)
(* The exporters.  They read the closure bindings template, params and     *)
(* config, never the Prompt's properties.                                  *)
(***************************************************************************)
\* Mutant of toObjectImpl: params is written even when it has no key.
toObjectAlwaysParams(pr, template, params, config) ==
    LET output == [id |-> pr.id, template |-> template, params |-> Ref(params)]
        withConfig == IF KeyCount(config) # 0
                      THEN [config |-> config] ELSE EmptyObj
    IN  output @@ withConfig

\* Mutant of toObjectImpl: the Prompt's _params property is exported, not
\* the params the modifiers keep up to date.
toObjectStaleParams(pr, template, params, config) ==
    LET output == [id |-> pr.id, template |-> template]
        withParams == IF KeyCount(objs[pr._params]) # 0
                      THEN [params |-> Ref(pr._params)] ELSE EmptyObj
        withConfig == IF KeyCount(config) # 0
                      THEN [config |-> config] ELSE EmptyObj
    IN  output @@ withParams @@ withConfig

\* _toObject(prompt, template, params, config); params is an address
toObjectImpl(pr, template, params, config) ==
    LET output == [id |-> pr.id, template |-> template]
        withParams == IF KeyCount(objs[params]) # 0
                      THEN [params |-> Ref(params)] ELSE EmptyObj
        withConfig == IF KeyCount(config) # 0
                      THEN [config |-> config] ELSE EmptyObj
    IN  output @@ withParams @@ withConfig

toObject(p) ==
    toObjectImpl(prompts[p], prompts[p].template, prompts[p].params,
                 prompts[p].config)

\* JSON.stringify of an object: a property whose value is undefined is not
\* written, every other property is
StripUndefined(o) ==
    [k \in {j \in DOMAIN o : o[j] # Undefined} |-> o[k]]

\* JSON.stringify(output): the text, as the tree of what it writes.  A
\* reference is written as the content it refers to.
JSONstringify(output) ==
    [k \in DOMAIN output |->
        CASE k = "params" -> StripUndefined(objs[output.params.addr])
          [] k = "config" ->
                LET c == StripUndefined(output.config)
                IN  [j \in DOMAIN c |-> pairs[c[j].addr]]
          [] OTHER -> output[k]]

toJSON(p) == JSONstringify(toObject(p))

\* _toString(template, params, partials, _delimiters): the arguments handed
\* to Mustache.render
toString(p) ==
    [ template   |-> prompts[p].template,
      view       |-> objs[prompts[p].params],
      partials   |-> EmptyObj,
      delimiters |-> pairs[prompts[p].delimiters] ]

\* The pair a Prompt renders with.
ActivePair(p) == toString(p).delimiters

\* A call of toJSON, toObject or toString: it returns its value and changes
\* nothing.
CallExporter(p, name) ==
    /\ CanCall
    /\ name \in {"toJSON", "toObject", "toString"}
    /\ p \in P
    /\ UNCHANGED vars

(***************************************************************************)
(* The modifiers.                                                          *)
(***************************************************************************)
\* Mutant of setParams: the modifier returns a Prompt with a new identifier.
setParamsNewId(p, na, override) ==
    /\ CanCall
    /\ LET nextParams == IF na.kind = "new" THEN na.val ELSE objs[na.addr]
       IN  \E id \in Ids :
           IF override
           THEN /\ objs' = IF na.kind = "new" THEN Append(objs, na.val) ELSE objs
                /\ prompts' = [prompts EXCEPT ![p].id = id, ![p].params =
                       IF na.kind = "new" THEN Len(objs) + 1 ELSE na.addr]
           ELSE /\ objs' = Append(objs, Spread(objs[prompts[p].params], nextParams))
                /\ prompts' = [prompts EXCEPT ![p].id = id,
                                              ![p].params = Len(objs) + 1]
    /\ hist' = [hist EXCEPT ![p].parCalled = TRUE,
                            ![p].parNext = IF na.kind = "new" THEN na.val
                                           ELSE objs[na.addr],
                            ![p].parOverride = override,
                            ![p].parBefore = objs[prompts[p].params]]
    /\ Called("setParams", p, FALSE)
    /\ UNCHANGED <<pairs, activeDelimiters, defaultSet>>

\* Mutant of setParams: the merge is written into the current params object
\* (Object.assign(params, nextParams)).
setParamsInPlace(p, na, override) ==
    /\ CanCall
    /\ LET nextParams == IF na.kind = "new" THEN na.val ELSE objs[na.addr]
       IN  IF override
           THEN /\ objs' = IF na.kind = "new" THEN Append(objs, na.val) ELSE objs
                /\ prompts' = [prompts EXCEPT ![p].params =
                       IF na.kind = "new" THEN Len(objs) + 1 ELSE na.addr]
           ELSE /\ objs' = [objs EXCEPT ![prompts[p].params] =
                       Spread(objs[prompts[p].params], nextParams)]
                /\ prompts' = prompts
    /\ hist' = [hist EXCEPT ![p].parCalled = TRUE,
                            ![p].parNext = IF na.kind = "new" THEN na.val
                                           ELSE objs[na.addr],
                            ![p].parOverride = override,
                            ![p].parBefore = objs[prompts[p].params]]
    /\ Called("setParams", p, FALSE)
    /\ UNCHANGED <<pairs, activeDelimiters, defaultSet>>

\* params = opts?.override ? nextParams : { ...params, ...nextParams }
setParams(p, na, override) ==
    /\ CanCall
    /\ LET nextParams == IF na.kind = "new" THEN na.val ELSE objs[na.addr]
       IN  IF override
           THEN /\ objs' = IF na.kind = "new" THEN Append(objs, na.val) ELSE objs
                /\ prompts' = [prompts EXCEPT ![p].params =
                       IF na.kind = "new" THEN Len(objs) + 1 ELSE na.addr]
           ELSE /\ objs' = Append(objs, Spread(objs[prompts[p].params], nextParams))
                /\ prompts' = [prompts EXCEPT ![p].params = Len(objs) + 1]
    /\ hist' = [hist EXCEPT ![p].parCalled = TRUE,
                            ![p].parNext = IF na.kind = "new" THEN na.val
                                           ELSE objs[na.addr],
                            ![p].parOverride = override,
                            ![p].parBefore = objs[prompts[p].params]]
    /\ Called("setParams", p, FALSE)
    /\ UNCHANGED <<pairs, activeDelimiters, defaultSet>>

\* Mutant of setDelimiters: the stored config is re-synced to the new pair.
setDelimitersSyncConfig(p, openTag, closeTag) ==
    /\ CanCall
    /\ pairs' = Append(pairs, <<openTag, closeTag>>)
    /\ prompts' = [prompts EXCEPT
           ![p].delimiters = Len(pairs) + 1,
           ![p].config = [delimiters |-> Ref(Len(pairs) + 1)],
           ![p]._config = [delimiters |-> Ref(Len(pairs) + 1)]]
    /\ hist' = [hist EXCEPT ![p].setArgs = <<openTag, closeTag>>,
                            ![p].delBefore = pairs[prompts[p].delimiters]]
    /\ Called("setDelimiters", p, FALSE)
    /\ UNCHANGED <<objs, activeDelimiters, defaultSet>>

\* Mutant of overrideGlobalDelimiters: an empty tag is rejected.
overrideValidating(openTag, closeTag) ==
    /\ CanCall
    /\ IF Len(openTag) = 0 \/ Len(closeTag) = 0
       THEN /\ Called("overrideGlobalDelimiters", 0, TRUE)
            /\ UNCHANGED <<pairs, objs, activeDelimiters, prompts, hist,
                           defaultSet>>
       ELSE /\ pairs' = Append(pairs, <<openTag, closeTag>>)
            /\ activeDelimiters' = Len(pairs) + 1
            /\ defaultSet' = <<openTag, closeTag>>
            /\ Called("overrideGlobalDelimiters", 0, FALSE)
            /\ UNCHANGED <<objs, prompts, hist>>

\* _delimiters = [openTag, closeTag]
setDelimiters(p, openTag, closeTag) ==
    /\ CanCall
    /\ pairs' = Append(pairs, <<openTag, closeTag>>)
    /\ prompts' = [prompts EXCEPT ![p].delimiters = Len(pairs) + 1]
    /\ hist' = [hist EXCEPT ![p].setArgs = <<openTag, closeTag>>,
                            ![p].delBefore = pairs[prompts[p].delimiters]]
    /\ Called("setDelimiters", p, FALSE)
    /\ UNCHANGED <<objs, activeDelimiters, defaultSet>>

\* Mutant of overrideGlobalDelimiters: the default array is written in place.
overrideInPlace(openTag, closeTag) ==
    /\ CanCall
    /\ pairs' = [pairs EXCEPT ![activeDelimiters] = <<openTag, closeTag>>]
    /\ defaultSet' = <<openTag, closeTag>>
    /\ Called("overrideGlobalDelimiters", 0, FALSE)
    /\ UNCHANGED <<objs, activeDelimiters, prompts, hist>>

\* activeDelimiters = [openTag, closeTag]
overrideGlobalDelimiters(openTag, closeTag) ==
    /\ CanCall
    /\ pairs' = Append(pairs, <<openTag, closeTag>>)
    /\ activeDelimiters' = Len(pairs) + 1
    /\ defaultSet' = <<openTag, closeTag>>
    /\ Called("overrideGlobalDelimiters", 0, FALSE)
    /\ UNCHANGED <<objs, prompts, hist>>

Next ==
    \/ \E t \in Templates, pa \in ParamLiterals, ca \in ConfigLiterals :
            prompt(t, pa, ca)
    \/ \E p \in P, na \in ParamArgs, override \in BOOLEAN : setParams(p, na, override)
    \/ \E p \in P, d \in DelimiterInputs : setDelimiters(p, d[1], d[2])
    \/ \E d \in DelimiterInputs : overrideGlobalDelimiters(d[1], d[2])
    \/ \E p \in P, name \in {"toObject", "toJSON", "toString"} : CallExporter(p, name)

Spec == Init /\ [][Next]_vars

(***************************************************************************)
(* Callers that share and write arrays and objects.  A caller holds the    *)
(* arrays it passed as config.delimiters and reaches a Prompt's arrays     *)
(* through its _delimiters property; an array element is writable          *)
(* (READ_ONLY freezes the property, not the array it refers to).           *)
(***************************************************************************)
\* arr[i] = tag, by the caller, on an array it can reach
WriteTag(addr, i, tag) ==
    /\ CanCall
    /\ addr \in CallerPairs
    /\ pairs' = [pairs EXCEPT ![addr][i] = tag]
    /\ Called("write", 0, FALSE)
    /\ UNCHANGED <<objs, activeDelimiters, prompts, hist, defaultSet>>

\* The literals of these callers.
AliasParamArgs ==
    [kind : {"new"}, val : {[a |-> Num(1), b |-> Num(2)]}]
        \cup [kind : {"ref"}, addr : CallerObjs]
AliasNextArgs ==
    [kind : {"new"}, val : {[a |-> Undefined]}]
        \cup [kind : {"ref"}, addr : CallerObjs]
AliasConfigArgs ==
    {[kind |-> "empty"], [kind |-> "new", val |-> <<"<%", "%>">>]}
        \cup [kind : {"ref"}, addr : CallerPairs]

NextAlias ==
    \/ \E t \in Templates, pa \in AliasParamArgs, ca \in AliasConfigArgs :
            prompt(t, pa, ca)
    \/ \E p \in P, na \in AliasNextArgs, override \in BOOLEAN :
            setParams(p, na, override)
    \/ \E p \in P : setDelimiters(p, "{{", "}}")
    \/ \E addr \in CallerPairs, i \in {1, 2}, tag \in {"", "<<"} :
            WriteTag(addr, i, tag)
    \/ \E p \in P, name \in {"toObject", "toJSON", "toString"} : CallExporter(p, name)

SpecAlias == Init /\ [][NextAlias]_vars

(***************************************************************************)
(* The identifier generator on its own: any number of uuid() calls, in a   *)
(* process with or without crypto.randomUUID.                              *)
(***************************************************************************)
InitUuid ==
    /\ randomUUID \in BOOLEAN
    /\ UuidInit
    /\ pairs = <<DEFAULT_DELIMITERS>>
    /\ objs = <<>>
    /\ activeDelimiters = 1
    /\ prompts = <<>>
    /\ last = [op |-> "init", target |-> 0, threw |-> FALSE,
               given |-> NoCall, dflt |-> NoCall]
    /\ calls = 0
    /\ hist = <<>>
    /\ defaultSet = DEFAULT_DELIMITERS

NextUuid ==
    \/ \E id \in NativeUUIDs : uuidNative(id)
    \/ \E random \in BufferInputs : uuid(random)

SpecUuid == InitUuid /\ [][NextUuid]_vars

(***************************************************************************)
(* Reconstruction: prompt(o.template, o.params, o.config) for              *)
(* o = p.toObject().  An absent params or config takes the parameter's     *)
(* default {}.  The result is whether the constructor throws and, if not,  *)
(* what the new Prompt's toString hands to the renderer.                   *)
(***************************************************************************)
Reconstructed(p) ==
    LET o == toObject(p)
        params == IF "params" \in DOMAIN o THEN objs[o.params.addr] ELSE EmptyObj
        config == IF "config" \in DOMAIN o THEN o.config ELSE EmptyObj
        delims == ResolveDelimiters(config)
    IN  [ threw      |-> InvalidDelimiters(pairs, delims),
          template   |-> o.template,
          view       |-> params,
          delimiters |-> pairs[delims] ]

(***************************************************************************)
(* The claims.                                                             *)
(***************************************************************************)

\* C1 (as claimed): a setDelimiters call with an empty open or close tag
\* throws and leaves the Prompt's active pair as it was before the call.
C1_SetDelimitersRejectsEmpty ==
    \A p \in P :
        HasEmptyTag(hist[p].setArgs) =>
            /\ ActivePair(p) = hist[p].delBefore
            /\ (last.op = "setDelimiters" /\ last.target = p) => last.threw

\* C2 (as claimed): in every reachable state both tags of every Prompt's
\* active pair are non-empty.
C2_DelimitersNeverEmpty ==
    \A p \in P : ~HasEmptyTag(ActivePair(p))

\* C3: a Prompt built without config.delimiters, and with no setDelimiters
\* call on it, renders with the pair that the latest overrideGlobalDelimiters
\* before its construction set (the initial default when there was none),
\* whatever overrides follow.
C3_DefaultForwardOnly ==
    \A p \in P :
        (hist[p].consConfig = NoCall /\ hist[p].setArgs = NoCall) =>
            ActivePair(p) = hist[p].consDefault

\* p1 was built under the initial default, the default was then overridden,
\* and p2 was built after the override.
C3_Witness ==
    \E p1, p2 \in P :
        /\ p1 < p2
        /\ hist[p1].consConfig = NoCall /\ hist[p1].setArgs = NoCall
        /\ hist[p2].consConfig = NoCall /\ hist[p2].setArgs = NoCall
        /\ hist[p1].consDefault = DEFAULT_DELIMITERS
        /\ hist[p2].consDefault = <<"<%", "%>">>
        /\ defaultSet = <<"<%", "%>">>

\* C4: the pair a Prompt renders with is the arguments of its latest
\* setDelimiters call if there was one, else the config.delimiters given at
\* construction if there was one, else the process-wide default that was
\* current at construction.
C4_Precedence ==
    \A p \in P :
        ActivePair(p) =
            IF hist[p].setArgs # NoCall THEN hist[p].setArgs
            ELSE IF hist[p].consConfig # NoCall THEN hist[p].consConfig
            ELSE hist[p].consDefault

\* A Prompt built with config.delimiters while the default was another
\* pair, and then given a third pair by setDelimiters.
C4_Witness ==
    \E p \in P :
        /\ hist[p].consConfig = <<"<%", "%>">>
        /\ hist[p].setArgs = <<"{{", "}}">>
        /\ hist[p].consDefault = DEFAULT_DELIMITERS

\* C5 (as claimed): in every reachable state, reconstruction from
\* toObject() succeeds and gives the same template, params and delimiters.
C5_RoundTrip ==
    \A p \in P :
        /\ ~Reconstructed(p).threw
        /\ Reconstructed(p).template = toString(p).template
        /\ Reconstructed(p).view = toString(p).view
        /\ Reconstructed(p).delimiters = toString(p).delimiters

\* C5 (amended): a reconstruction that succeeds has the same template and
\* the same effective params; and when setDelimiters was never called on p,
\* and p was given config.delimiters or the process-wide default still has
\* the value it had when p was built, the reconstruction succeeds and has
\* the same active delimiters as well.
C5_RoundTripAmended ==
    \A p \in P :
        /\ ~Reconstructed(p).threw =>
              /\ Reconstructed(p).template = toString(p).template
              /\ Reconstructed(p).view = toString(p).view
        /\ ( /\ hist[p].setArgs = NoCall
             /\ (hist[p].consConfig # NoCall \/ defaultSet = hist[p].consDefault) )
           => /\ ~Reconstructed(p).threw
              /\ Reconstructed(p).delimiters = toString(p).delimiters

\* A Prompt built with config.delimiters whose params setParams has changed,
\* with the process-wide default overridden since.
C5_Witness ==
    \E p \in P :
        /\ hist[p].consConfig # NoCall
        /\ hist[p].setArgs = NoCall
        /\ hist[p].parCalled
        /\ toString(p).view # objs[prompts[p]._params]
        /\ defaultSet # hist[p].consDefault

\* C6: after setParams(next) the params are the key-by-key merge of the
\* params before the call and next, next winning on shared keys; after
\* setParams(next, {override: true}) they are exactly next.  toString,
\* toObject and toJSON use that map.
C6_SetParams ==
    \A p \in P :
        hist[p].parCalled =>
            LET cur == hist[p].parBefore
                next == hist[p].parNext
                res == toString(p).view
            IN  /\ IF hist[p].parOverride
                   THEN res = next
                   ELSE /\ DOMAIN res = (DOMAIN cur) \cup (DOMAIN next)
                        /\ \A k \in DOMAIN next : res[k] = next[k]
                        /\ \A k \in (DOMAIN cur) \ (DOMAIN next) : res[k] = cur[k]
                /\ "params" \in DOMAIN toObject(p) =>
                       objs[toObject(p).params.addr] = res
                /\ "params" \in DOMAIN toJSON(p) =>
                       toJSON(p).params = StripUndefined(res)

\* A merge with a shared key (a) whose values differ and a key (b) that
\* only the current params have.
C6_Witness ==
    \E p \in P :
        /\ hist[p].parCalled /\ ~hist[p].parOverride
        /\ hist[p].parBefore = [a |-> Num(1), b |-> Num(2)]
        /\ hist[p].parNext = [a |-> Undefined]

\* C7: toObject() always has id and template, has params exactly when the
\* current params have a key, and has config exactly when the construction
\* config had a key.
C7_ToObjectKeys ==
    \A p \in P :
        /\ {"id", "template"} \subseteq DOMAIN toObject(p)
        /\ "params" \in DOMAIN toObject(p) <=> DOMAIN toString(p).view # {}
        /\ "config" \in DOMAIN toObject(p) <=> DOMAIN prompts[p]._config # {}

\* A Prompt built with params and a config, whose params setParams has then
\* replaced by {}.
C7_Witness ==
    \E p \in P :
        /\ hist[p].parCalled
        /\ hist[p].parBefore # EmptyObj
        /\ "params" \notin DOMAIN toObject(p)
        /\ "config" \in DOMAIN toObject(p)

\* C8 (as claimed): the JSON text never has a params or config object
\* without entries, and no entry of params is undefined.
C8_NoEmptyObjectInJSON ==
    \A p \in P :
        /\ "params" \in DOMAIN toJSON(p) =>
              /\ DOMAIN toJSON(p).params # {}
              /\ \A k \in DOMAIN toJSON(p).params : toJSON(p).params[k] # Undefined
        /\ "config" \in DOMAIN toJSON(p) => DOMAIN toJSON(p).config # {}

\* C9: the id and the template of a Prompt, as properties, as exported by
\* toObject and toJSON and as rendered, are those of its construction.
C9_IdAndTemplateFixed ==
    \A p \in P :
        /\ prompts[p].id = hist[p].consId
        /\ toObject(p).id = hist[p].consId
        /\ toJSON(p).id = hist[p].consId
        /\ prompts[p]._template = hist[p].consTemplate
        /\ toObject(p).template = hist[p].consTemplate
        /\ toJSON(p).template = hist[p].consTemplate
        /\ toString(p).template = hist[p].consTemplate

\* A Prompt on which both setParams and setDelimiters have been called.
C9_Witness ==
    \E p \in P : hist[p].parCalled /\ hist[p].setArgs # NoCall

\* C10: a prompt() call whose resolved pair (config.delimiters if given,
\* else the process-wide default) has an empty tag throws and adds no
\* Prompt; any other prompt() call returns a Prompt whose active pair is the
\* resolved pair.
C10_ConstructionValidates ==
    [][ (calls' = calls + 1 /\ last'.op = "prompt") =>
            LET resolved == IF last'.given # NoCall THEN last'.given
                            ELSE last'.dflt
            IN  IF HasEmptyTag(resolved)
                THEN last'.threw /\ prompts' = prompts
                ELSE /\ ~last'.threw
                     /\ Len(prompts') = Len(prompts) + 1
                     /\ pairs'[prompts'[Len(prompts')].delimiters] = resolved
      ]_vars

\* A prompt() call without config.delimiters has thrown because the
\* process-wide default had an empty tag.
C10_Witness ==
    /\ last.op = "prompt" /\ last.threw
    /\ last.given = NoCall
    /\ HasEmptyTag(last.dflt)

\* C11: whatever setDelimiters calls were made, the Prompt's config
\* property and toObject().config are the config given at construction: the
\* same entries, the same delimiters array with the same content, or no
\* config key when the construction config had none.
C11_ConfigKept ==
    \A p \in P :
        /\ prompts[p]._config = hist[p].consCfg
        /\ IF DOMAIN hist[p].consCfg = {}
           THEN "config" \notin DOMAIN toObject(p)
           ELSE /\ "config" \in DOMAIN toObject(p)
                /\ toObject(p).config = hist[p].consCfg
        /\ hist[p].consConfig # NoCall =>
               pairs[toObject(p).config.delimiters.addr] = hist[p].consConfig

\* A Prompt built with config.delimiters on which setDelimiters has set
\* another pair.
C11_Witness ==
    \E p \in P :
        /\ hist[p].consConfig = <<"<%", "%>">>
        /\ hist[p].setArgs = <<"{{", "}}">>
        /\ ActivePair(p) # pairs[toObject(p).config.delimiters.addr]

\* C13: overrideGlobalDelimiters never throws and leaves every existing
\* Prompt as it was, whatever its arguments; a later prompt() call without
\* config.delimiters throws exactly when the latest override (or the initial
\* default) has an empty tag, and one with a valid config.delimiters returns
\* a Prompt.
C13_OverrideForwardOnly ==
    [][ (calls' = calls + 1) =>
          /\ last'.op = "overrideGlobalDelimiters" =>
                /\ ~last'.threw
                /\ prompts' = prompts
                /\ \A p \in P : pairs'[prompts'[p].delimiters] = ActivePair(p)
          /\ (last'.op = "prompt" /\ last'.given = NoCall) =>
                /\ last'.threw <=> HasEmptyTag(defaultSet)
                /\ ~last'.threw => Len(prompts') = Len(prompts) + 1
          /\ (last'.op = "prompt" /\ last'.given # NoCall
                /\ ~HasEmptyTag(last'.given)) =>
                /\ ~last'.threw
                /\ Len(prompts') = Len(prompts) + 1
      ]_vars

\* With a Prompt already built, the default was overridden with an empty
\* tag and a prompt() call without config.delimiters has then thrown.
C13_Witness ==
    /\ Len(prompts) >= 1
    /\ HasEmptyTag(defaultSet)
    /\ last.op = "prompt" /\ last.threw /\ last.given = NoCall
    /\ \A p \in P : ~HasEmptyTag(ActivePair(p))

\* C14 (as claimed): the _delimiters property is the pair toString hands to
\* the renderer and the _params property is the params toString and
\* toObject use.
C14_PropertiesLive ==
    \A p \in P :
        /\ pairs[prompts[p]._delimiters] = toString(p).delimiters
        /\ objs[prompts[p]._params] = toString(p).view

\* C12 (as claimed): an in-place write to an array the caller can reach (the
\* array it passed as config.delimiters, the process-wide default, another
\* Prompt's array) leaves the pair every Prompt renders with as it was.
C12_PairCopiedByValue ==
    [][ (calls' = calls + 1 /\ last'.op = "write") =>
            \A p \in P : pairs'[prompts'[p].delimiters] = ActivePair(p)
      ]_vars

\* C15: a setParams call on p leaves p's active pair, every other Prompt's
\* params and pair, the process-wide default and every object and array
\* that existed before the call (the caller's own params map among them) as
\* they were; a setDelimiters call on p leaves p's params and the same other
\* things as they were.
C15_MutatorsIsolated ==
    [][ (calls' = calls + 1 /\ last'.op \in {"setParams", "setDelimiters"}) =>
            /\ \A q \in P \ {last'.target} :
                  /\ pairs'[prompts'[q].delimiters] = ActivePair(q)
                  /\ objs'[prompts'[q].params] = toString(q).view
            /\ last'.op = "setParams" =>
                  pairs'[prompts'[last'.target].delimiters] =
                      ActivePair(last'.target)
            /\ last'.op = "setDelimiters" =>
                  objs'[prompts'[last'.target].params] =
                      toString(last'.target).view
            /\ activeDelimiters' = activeDelimiters
            /\ pairs'[activeDelimiters'] = pairs[activeDelimiters]
            /\ \A a \in DOMAIN objs : objs'[a] = objs[a]
            /\ \A a \in DOMAIN pairs : pairs'[a] = pairs[a]
      ]_vars

\* Two Prompts built from the same params map and under the same default
\* pair; setParams has been called on one of them and their params differ.
C15_Witness ==
    \E p, q \in P :
        /\ p # q
        /\ prompts[p]._params = prompts[q]._params
        /\ prompts[p]._delimiters = prompts[q]._delimiters
        /\ prompts[p]._delimiters = activeDelimiters
        /\ hist[p].parCalled /\ ~hist[p].parOverride
        /\ ~hist[q].parCalled
        /\ toString(p).view # toString(q).view

HexDigits == {HexDigit(d) : d \in 0..15}

CharAt(str, pos) == SubSeq(str, pos, pos)

\* C16: on the Math.random path uuid() returns 36 characters: hyphens at
\* places 9, 14, 19 and 24, hex digits everywhere else, 4 at place 15 and
\* one of 8, 9, a, b at place 20.
C16_UuidFormat ==
    (uuidLast.called /\ ~uuidLast.native) =>
        /\ Len(uuidLast.out) = 36
        /\ \A pos \in 1..36 :
              IF pos \in {9, 14, 19, 24}
              THEN CharAt(uuidLast.out, pos) = "-"
              ELSE CharAt(uuidLast.out, pos) \in HexDigits
        /\ CharAt(uuidLast.out, 15) = "4"
        /\ CharAt(uuidLast.out, 20) \in {"8", "9", "a", "b"}

\* A call on the Math.random path that read the last window of a buffer
\* whose bytes all differ.
C16_Witness ==
    /\ uuidLast.called /\ ~uuidLast.native /\ ~uuidLast.regenerated
    /\ uuidLast.base = 240
    /\ BUFFER[0] # BUFFER[1]

\* C17: every call on the Math.random path reads BUFFER at IDX..IDX+15 with
\* IDX in 0..240, of a buffer of 256 bytes; the buffer is refilled and IDX
\* reset to 0 exactly on the first call and when IDX + 16 > 256; IDX ends
\* one above the index the call read from.
C17_BufferReadsInRange ==
    (uuidLast.called /\ ~uuidLast.native) =>
        /\ uuidLast.base \in 0..240
        /\ uuidLast.reads = {uuidLast.base + i : i \in 0..15}
        /\ uuidLast.reads \subseteq 0..255
        /\ DOMAIN BUFFER = 0..255
        /\ \A k \in DOMAIN BUFFER : BUFFER[k] \in 0..255
        /\ uuidLast.regenerated <=>
              (~uuidLast.hadBuffer \/ uuidLast.idxBefore + 16 > 256)
        /\ uuidLast.base = IF uuidLast.regenerated THEN 0 ELSE uuidLast.idxBefore
        /\ IDX = uuidLast.base + 1

\* A call that refilled the buffer because the window had reached its end.
C17_Witness ==
    /\ uuidLast.called /\ ~uuidLast.native
    /\ uuidLast.regenerated /\ uuidLast.hadBuffer
    /\ uuidLast.idxBefore = 241
====
